---- MODULE Spec2Model ----
(***************************************************************************)
(* Model of the storyteller conversation engine:                           *)
(*   src/storyteller/cli.py   chat_loop  (session bootstrap and turn loop) *)
(*   src/storyteller/ai.py    AIGateway  (generation backend abstraction)  *)
(* A text (Python str) is a sequence of one-character strings, so that     *)
(* strip, startswith, substring search, slicing, formatting and JSON       *)
(* parsing are computed character by character as the code computes them.  *)
(***************************************************************************)
EXTENDS Integers, Sequences, FiniteSets, TLC

\* ------------------------------------------------------------------ bounds
\* Number of non-terminating turns a session may take.
MaxTurns == 2
\* Length of the long narration (longer than the persisted prefix).
LongLen == 52
\* Number of files in the lore directory.
MaxFiles == 2

\* ------------------------------------------------------- program constants
\* cli.py:218  response[:50]
TruncLen == 50
\* cli.py:150  get_recent_events(story_id, limit=5)
EventLimit == 5
\* cli.py:103  story_id default None (typer.Option(None))
None == -1

\* --------------------------------------------------------- text primitives
Min(a, b) == IF a < b THEN a ELSE b

\* str.isspace for the characters of the model's alphabet
Whitespace == {" "}

\* s[:n]
Take(s, n) == SubSeq(s, 1, Min(n, Len(s)))

\* s.startswith(p)
startswith(s, p) == Len(s) >= Len(p) /\ SubSeq(s, 1, Len(p)) = p

\* sub in s
Contains(s, sub) ==
    \E i \in 1..(Len(s) + 1) :
        i + Len(sub) - 1 <= Len(s) /\ SubSeq(s, i, i + Len(sub) - 1) = sub

\* index of the first non-whitespace character at or after i (Len(s)+1 if none)
RECURSIVE SkipWs(_, _)
SkipWs(s, i) ==
    IF i > Len(s) THEN Len(s) + 1
    ELSE IF s[i] \in Whitespace THEN SkipWs(s, i + 1)
    ELSE i

\* index of the last non-whitespace character at or before i (0 if none)
RECURSIVE SkipWsBack(_, _)
SkipWsBack(s, i) ==
    IF i < 1 THEN 0
    ELSE IF s[i] \in Whitespace THEN SkipWsBack(s, i - 1)
    ELSE i

\* s.strip()
strip(s) == SubSeq(s, SkipWs(s, 1), SkipWsBack(s, Len(s)))

UpperCase ==
    <<"A","B","C","D","E","F","G","H","I","J","K","L","M",
      "N","O","P","Q","R","S","T","U","V","W","X","Y","Z">>
LowerCase ==
    <<"a","b","c","d","e","f","g","h","i","j","k","l","m",
      "n","o","p","q","r","s","t","u","v","w","x","y","z">>

LowerChar(c) ==
    IF \E k \in 1..26 : UpperCase[k] = c
    THEN LowerCase[CHOOSE k \in 1..26 : UpperCase[k] = c]
    ELSE c

\* s.lower()
lower(s) == [i \in 1..Len(s) |-> LowerChar(s[i])]

\* ------------------------------------------------------------- json.loads
\* json.loads on the model's alphabet: letters, space and { } " : , so a JSON
\* value is an object or a string (no numbers, arrays, escapes or literals
\* occur in the replies of the model).  A parse result carries the index after
\* the value, its kind, its text when it is a string, and, for an object, the
\* value of its member "tool" (the last one if the key is repeated, as a
\* Python dict keeps the last).
QUOTE == "\""
ToolKey == <<"t","o","o","l">>
NoMember == [kind |-> "none", str |-> <<>>]
ParseFail ==
    [ok |-> FALSE, next |-> 0, kind |-> "none", str |-> <<>>, tool |-> NoMember]

\* index of the closing quote of a string whose opening quote is before i
RECURSIVE ClosingQuote(_, _)
ClosingQuote(s, i) ==
    IF i > Len(s) THEN 0
    ELSE IF s[i] = QUOTE THEN i
    ELSE ClosingQuote(s, i + 1)

\* a string starting at the quote s[i]
ParseString(s, i) ==
    LET j == ClosingQuote(s, i + 1) IN
    IF j = 0 THEN ParseFail
    ELSE [ok |-> TRUE, next |-> j + 1, kind |-> "str",
          str |-> SubSeq(s, i + 1, j - 1), tool |-> NoMember]

RECURSIVE ParseValue(_, _)
RECURSIVE ParseMembers(_, _, _)

\* the members of an object from index i0 on, up to and including its "}"
ParseMembers(s, i0, tool) ==
    LET i == SkipWs(s, i0) IN
    IF i > Len(s) \/ s[i] # QUOTE THEN ParseFail
    ELSE LET k == ParseString(s, i) IN
    IF ~k.ok THEN ParseFail
    ELSE LET c == SkipWs(s, k.next) IN
    IF c > Len(s) \/ s[c] # ":" THEN ParseFail
    ELSE LET v == ParseValue(s, c + 1) IN
    IF ~v.ok THEN ParseFail
    ELSE LET tool2 == IF k.str = ToolKey
                      THEN [kind |-> v.kind, str |-> v.str]
                      ELSE tool
             d == SkipWs(s, v.next) IN
    IF d > Len(s) THEN ParseFail
    ELSE IF s[d] = "," THEN ParseMembers(s, d + 1, tool2)
    ELSE IF s[d] = "}"
         THEN [ok |-> TRUE, next |-> d + 1, kind |-> "obj",
               str |-> <<>>, tool |-> tool2]
    ELSE ParseFail

\* a value from index i0 on, after optional whitespace
ParseValue(s, i0) ==
    LET i == SkipWs(s, i0) IN
    IF i > Len(s) THEN ParseFail
    ELSE IF s[i] = QUOTE THEN ParseString(s, i)
    ELSE IF s[i] = "{" THEN
        LET j == SkipWs(s, i + 1) IN
        IF j <= Len(s) /\ s[j] = "}"
        THEN [ok |-> TRUE, next |-> j + 1, kind |-> "obj",
              str |-> <<>>, tool |-> NoMember]
        ELSE ParseMembers(s, i + 1, NoMember)
    ELSE ParseFail

\* json.loads(s): ok = FALSE stands for json.JSONDecodeError; the whole text
\* must be one value (trailing non-whitespace is "Extra data")
json_loads(s) ==
    LET v == ParseValue(s, 1) IN
    IF v.ok /\ SkipWs(s, v.next) > Len(s)
    THEN [ok |-> TRUE, kind |-> v.kind, tool |-> v.tool]
    ELSE [ok |-> FALSE, kind |-> "none", tool |-> NoMember]

\* ------------------------------------------------------------------ texts
OPENAI ==
    <<"o","p","e","n","a","i">>
ANTHROPIC ==
    <<"a","n","t","h","r","o","p","i","c">>
GEMINI ==
    <<"g","e","m","i","n","i">>
\* an unsupported provider tag
PIGEON ==
    <<"c","a","r","r","i","e","r","-","p","i","g","e","o","n">>
ProviderTags == {OPENAI, ANTHROPIC, GEMINI, PIGEON}

ErrUnknownPrefix ==
    <<"E","r","r","o","r",":"," ","U","n","k","n","o","w","n"," ",
      "p","r","o","v","i","d","e","r"," ","'">>
ErrOpenAIKey ==
    <<"E","r","r","o","r",":"," ","O","p","e","n","A","I"," ","A","P","I"," ",
      "k","e","y"," ","n","o","t"," ","f","o","u","n","d",".">>
ErrAnthropicKey ==
    <<"E","r","r","o","r",":"," ","A","n","t","h","r","o","p","i","c"," ",
      "A","P","I"," ","k","e","y"," ","n","o","t"," ","f","o","u","n","d",".">>
ErrGeminiKey ==
    <<"E","r","r","o","r",":"," ","G","e","m","i","n","i"," ","A","P","I"," ",
      "k","e","y"," ","n","o","t"," ","f","o","u","n","d",".">>
ErrGeneratingPrefix ==
    <<"E","r","r","o","r"," ","g","e","n","e","r","a","t","i","n","g"," ",
      "r","e","s","p","o","n","s","e"," ","w","i","t","h"," ">>
UserPrefix ==
    <<"U","s","e","r",":"," ">>
AIPrefix ==
    <<"A","I",":"," ">>
Ellipsis ==
    <<".",".",".">>
\* the literal "tool" in double quotes that cli.py:187 looks for
QuotedTool ==
    <<"\"","t","o","o","l","\"">>
ExitWords == {<<"e","x","i","t">>, <<"q","u","i","t">>}

\* what the user may type at the prompt: the two keywords, one of them with a
\* capital, and a line that only starts with a keyword
Utterances ==
    {<<"e","x","i","t">>, <<"Q","u","i","t">>, <<"e","x","i","t","s">>}

\* what a provider may answer
ReplyLong == [i \in 1..LongLen |-> "a"]
ReplyToolD ==
    <<"{","\"","t","o","o","l","\"",":","\"","d","\"",",",
      "\"","a","r","g","s","\"",":","{","}","}">>
ReplyToolDPadded ==
    <<" ","{","\"","t","o","o","l","\"",":"," ","\"","d","\"","}"," ">>
ReplyToolX ==
    <<"{","\"","t","o","o","l","\"",":","\"","x","\"",",",
      "\"","a","r","g","s","\"",":","{","}","}">>
ReplyMalformed ==
    <<"{","\"","t","o","o","l","\"",":","\"","d","\"">>
ReplyExtraData ==
    <<"{","\"","t","o","o","l","\"",":","\"","d","\"","}"," ","g","o">>
ReplyNested ==
    <<"{","\"","a","\"",":","{","\"","t","o","o","l","\"",":","\"","d","\"","}","}">>
Replies ==
    {ReplyLong, ReplyToolD, ReplyToolDPadded, ReplyToolX,
     ReplyMalformed, ReplyExtraData, ReplyNested}

\* a provider call that reaches the network returns a text or raises; str(e)
\* of what it raises may itself be JSON (the body of an error reply)
ErrorDetails == {ReplyToolD}
NetOutcomes ==
    {[kind |-> "text", text |-> r] : r \in Replies}
        \cup {[kind |-> "raise", text |-> d] : d \in ErrorDetails}

\* tool descriptors of get_all_tools: name and owning server
ToolD1 == [name |-> <<"d">>, server_name |-> <<"s","1">>]
ToolD2 == [name |-> <<"d">>, server_name |-> <<"s","2">>]
ToolE2 == [name |-> <<"e">>, server_name |-> <<"s","2">>]
ToolSnapshots == {<< >>, <<ToolE2, ToolD1>>, <<ToolD1, ToolD2>>}
ToolResults == {<<"4">>}

\* ------------------------------------------------------------- AIGateway
\* the gateway after _setup_clients: which credentials were found
Gateways ==
    [openai_client : BOOLEAN, anthropic_client : BOOLEAN, gemini_key : BOOLEAN]
\* the environments tried: no key, every key, only ANTHROPIC_API_KEY
GatewayConfigs ==
    {g \in Gateways :
        \/ ~g.openai_client /\ ~g.anthropic_client /\ ~g.gemini_key
        \/ g.openai_client /\ g.anthropic_client /\ g.gemini_key
        \/ ~g.openai_client /\ g.anthropic_client /\ ~g.gemini_key}

\* the remote request: one network call, which returns or raises
NetworkCall(outcome) ==
    [text |-> outcome.text, net |-> 1, raised |-> outcome.kind = "raise"]
\* a return that made no request
Returned(text) == [text |-> text, net |-> 0, raised |-> FALSE]

generate_openai(g, outcome) ==
    IF ~g.openai_client THEN Returned(ErrOpenAIKey)
    ELSE NetworkCall(outcome)

generate_anthropic(g, outcome) ==
    IF ~g.anthropic_client THEN Returned(ErrAnthropicKey)
    ELSE NetworkCall(outcome)

\* generate_gemini without the credential check of ai.py:84-85
generate_gemini_unchecked(g, outcome) ==
    NetworkCall(outcome)

generate_gemini(g, outcome) ==
    IF ~g.gemini_key THEN Returned(ErrGeminiKey)
    ELSE NetworkCall(outcome)

\* f"Error: Unknown provider '{provider}'"
UnknownProviderText(p) == ErrUnknownPrefix \o p \o <<"'">>

\* the error text with str(e) put in front of the fixed words
ErrorGeneratingText_detailfirst(p, detail) ==
    detail \o <<":", " ">> \o ErrGeneratingPrefix \o p

\* f"Error generating response with {provider}: {str(e)}"
ErrorGeneratingText(p, detail) == ErrGeneratingPrefix \o p \o <<":", " ">> \o detail

\* generate_response whose except clause returns str(e) without the prefix
generate_response_bare(g, p, outcome) ==
    LET r == IF p = OPENAI THEN generate_openai(g, outcome)
             ELSE IF p = ANTHROPIC THEN generate_anthropic(g, outcome)
             ELSE IF p = GEMINI THEN generate_gemini(g, outcome)
             ELSE Returned(UnknownProviderText(p))
    IN  [text |-> r.text, net |-> r.net, failed |-> r.raised]

\* generate_response: the text returned, the number of network calls made and
\* whether the provider call raised (and was caught by `except Exception`)
generate_response(g, p, outcome) ==
    LET r == IF p = OPENAI THEN generate_openai(g, outcome)
             ELSE IF p = ANTHROPIC THEN generate_anthropic(g, outcome)
             ELSE IF p = GEMINI THEN generate_gemini(g, outcome)
             ELSE Returned(UnknownProviderText(p))
    IN  IF r.raised
        THEN [text |-> ErrorGeneratingText(p, r.text), net |-> r.net,
              failed |-> TRUE]
        ELSE [text |-> r.text, net |-> r.net, failed |-> FALSE]

\* ---------------------------------------------------- chat_loop helpers
\* Python truthiness of an int-or-None (cli.py:127, not story_id)
FalsyId(id) == id = None \/ id = 0

\* cli.py:187  response.strip().startswith("{") and "\"tool\"" in response
IsToolCandidate(resp) ==
    startswith(strip(resp), <<"{">>) /\ Contains(resp, QuotedTool)

\* the server lookup without the comparison of names
FirstServer_anyname(ts, tool, i) ==
    IF i > Len(ts) THEN [found |-> FALSE, name |-> << >>]
    ELSE [found |-> TRUE, name |-> ts[i].server_name]

\* the server lookup that keeps the last descriptor with the name
FirstServer_last(ts, tool, i) ==
    LET hits == {k \in i..Len(ts) : tool.kind = "str" /\ ts[k].name = tool.str}
    IN  IF hits = {} THEN [found |-> FALSE, name |-> << >>]
        ELSE [found |-> TRUE,
              name |-> ts[CHOOSE k \in hits : \A m \in hits : m <= k].server_name]

\* cli.py:194  next((t["server_name"] for t in tools if t["name"] == tool_name), None)
RECURSIVE FirstServer(_, _, _)
FirstServer(ts, tool, i) ==
    IF i > Len(ts) THEN [found |-> FALSE, name |-> << >>]
    ELSE IF tool.kind = "str" /\ ts[i].name = tool.str
         THEN [found |-> TRUE, name |-> ts[i].server_name]
    ELSE FirstServer(ts, tool, i + 1)

\* cli.py:196  if server_name:
Truthy(server) == server.found /\ server.name # << >>

\* cli.py:150  the last `limit` events, in chronological order
get_recent_events(log, limit) ==
    SubSeq(log, IF Len(log) > limit THEN Len(log) - limit + 1 ELSE 1, Len(log))

\* cli.py:217-218  the two event descriptions of a turn
UserEvent(u) == UserPrefix \o u
AIEvent(resp) == AIPrefix \o Take(resp, TruncLen) \o Ellipsis

MaxKey(S) == CHOOSE m \in S : \A k \in S : k <= m

\* ------------------------------------------------------------ LoreManager
\* str.upper() of one character: a sequence, since the upper case of the
\* German sharp s is the two letters SS
UpperChar(c) ==
    IF c = "ß" THEN <<"S", "S">>
    ELSE IF \E k \in 1..26 : LowerCase[k] = c
    THEN <<UpperCase[CHOOSE k \in 1..26 : LowerCase[k] = c]>>
    ELSE <<c>>

\* s.upper()
RECURSIVE upper(_)
upper(s) == IF s = << >> THEN << >> ELSE UpperChar(Head(s)) \o upper(Tail(s))

NL == "\n"
\* lore.py:49
NoLoreFound ==
    <<"N","o"," ","s","p","e","c","i","f","i","c"," ","l","o","r","e"," ",
      "f","o","u","n","d"," ","f","o","r"," ","t","h","i","s"," ",
      "q","u","e","r","y",".">>
Dashes == <<"-","-","-">>
RelevantMark ==
    <<" ","(","R","e","l","e","v","a","n","t"," ","C","o","n","t","e","n","t",")">>

\* lore.py:41  f"--- {topic.upper()} ---\n{content}\n"
TopicBlock(topic, content) ==
    Dashes \o <<" ">> \o upper(topic) \o <<" ">> \o Dashes \o <<NL>>
        \o content \o <<NL>>
\* lore.py:46  f"--- {topic.upper()} (Relevant Content) ---\n{content}\n"
ContentBlock(topic, content) ==
    Dashes \o <<" ">> \o upper(topic) \o RelevantMark \o <<" ">> \o Dashes
        \o <<NL>> \o content \o <<NL>>

\* "\n".join(results)
RECURSIVE JoinLines(_)
JoinLines(results) ==
    IF results = << >> THEN << >>
    ELSE IF Len(results) = 1 THEN results[1]
    ELSE results[1] \o <<NL>> \o JoinLines(Tail(results))

\* lore.py:37  query = query.lower()
QueryKey(query) == lower(query)

\* lore.py:39-46  the blocks of the matching documents, in dict order; the
\* cache (a dict) is a sequence of [topic, content] with distinct topics
RECURSIVE MatchBlocks(_, _)
MatchBlocks(cache, q) ==
    IF cache = << >> THEN << >>
    ELSE LET topic == Head(cache).topic
             content == Head(cache).content
             rest == MatchBlocks(Tail(cache), q)
         IN  IF Contains(topic, q) THEN <<TopicBlock(topic, content)>> \o rest
             ELSE IF Contains(lower(content), q)
                  THEN <<ContentBlock(topic, content)>> \o rest
             ELSE rest

\* lore.py:31-51  search_lore
search_lore(cache, query) ==
    LET results == MatchBlocks(cache, QueryKey(query)) IN
    IF results = << >> THEN NoLoreFound ELSE JoinLines(results)

\* dict.get(key): the content stored under key, if any
DictGet(cache, key) ==
    IF \E i \in 1..Len(cache) : cache[i].topic = key
    THEN [found |-> TRUE,
          content |-> cache[CHOOSE i \in 1..Len(cache) : cache[i].topic = key].content]
    ELSE [found |-> FALSE, content |-> << >>]

\* lore.py:23-25  get_lore
get_lore(cache, topic) == DictGet(cache, lower(topic))

\* self.lore_cache[key] = value: replace in place, or insert at the end
DictSet(cache, key, value) ==
    IF \E i \in 1..Len(cache) : cache[i].topic = key
    THEN [i \in 1..Len(cache) |->
            IF cache[i].topic = key THEN [topic |-> key, content |-> value]
            ELSE cache[i]]
    ELSE Append(cache, [topic |-> key, content |-> value])

\* lore.py:17-21  one file of the glob: stored under its stem, or skipped with
\* a message when it cannot be read
LoadFile(cache, file) ==
    IF file.readable THEN DictSet(cache, file.stem, file.content) ELSE cache

\* lore.py:16-21  the loop over the files of the directory
RECURSIVE LoadAll(_, _)
LoadAll(cache, files) ==
    IF files = << >> THEN cache
    ELSE LoadAll(LoadFile(cache, Head(files)), Tail(files))

\* the *.md files a lore directory may hold: a lower-case stem, a stem with a
\* capital, a file that cannot be read
FileDr == [stem |-> <<"d","r">>, content |-> <<"R","e","d">>, readable |-> TRUE]
FileDx == [stem |-> <<"D","x">>, content |-> <<"s","s">>, readable |-> TRUE]
FileNo == [stem |-> <<"n","o">>, content |-> <<"d","r">>, readable |-> FALSE]
Files == {FileDr, FileDx, FileNo}

\* the directories tried: up to MaxFiles files, in any glob order
RECURSIVE Listings(_)
Listings(n) ==
    IF n = 0 THEN {<< >>}
    ELSE Listings(n - 1) \cup
         {Append(l, f) : l \in {m \in Listings(n - 1) : Len(m) = n - 1},
                         f \in Files}
Directories ==
    {l \in Listings(MaxFiles) :
        \A i, j \in 1..Len(l) : i # j => l[i].stem # l[j].stem}

\* the queries tried
Queries ==
    {<<"d","r">>, <<"D","R">>, <<"r","e","d">>, <<"d","x">>, <<"ß">>,
     <<"S","S">>}
\* the topics asked of get_lore
Topics == {<<"d","r">>, <<"D","R">>, <<"D","x">>}

\* ------------------------------------------------------------------ state
VARIABLES
    pc,             \* position of chat_loop
    gw,             \* the AIGateway (credentials found at construction)
    provider,       \* --provider
    arg_story_id,   \* --story-id as given to chat_loop
    story_id,       \* the local `story_id`: the argument, then the active story
    db,             \* DatabaseManager: story id -> its events, oldest first
    tools,          \* snapshot returned by get_all_tools
    connected,      \* connect_all has returned
    cleanups,       \* number of mcp_client.cleanup() calls
    prompts,        \* number of Prompt.ask reads
    created,        \* number of create_story calls
    reported,       \* "Story ID ... not found." was printed
    user_input,     \* the utterance of the current turn
    response,       \* the local `response`
    server_name,    \* the local `server_name`
    recent_events,  \* the local `recent_events`
    gens,           \* generate_response calls of the current turn
    invocations,    \* call_tool calls of the current turn
    turnEvents,     \* events appended in the current turn
    displayed,      \* narrations printed in the current turn
    turn,           \* "none", "running", "completed" or "aborted"
    turns,          \* number of turns started
    exit,           \* how the session ended
    faultAt,        \* the position that raised
    relevant_lore,  \* the local `relevant_lore`
    steps,          \* the calls of the current turn, in the order made
    disk,           \* the *.md files of the lore directory, in glob order
    lore_cache,     \* LoreManager.lore_cache
    lore_pc,        \* "idle", or "loading" inside refresh_lore
    pending,        \* files the running _load_lore has still to read
    old_cache,      \* the mapping when the last refresh began
    new_cache,      \* the mapping the last refresh builds
    last_search,    \* the last search_lore call and the mapping it read
    got             \* the last get_lore call and the mapping it read

sessionVars == <<gw, provider, arg_story_id, tools, connected, created, reported>>
turnVars == <<user_input, response, server_name, recent_events, gens,
              invocations, turnEvents, displayed, turn, turns, relevant_lore,
              steps>>
loreVars == <<disk, lore_cache, lore_pc, pending, old_cache, new_cache,
              last_search, got>>
chatVars == <<pc, story_id, db, cleanups, prompts, exit, faultAt,
              sessionVars, turnVars>>
vars == <<chatVars, loreVars>>

\* the database when the session starts: story 1 with three earlier turns
\* (more events than get_recent_events returns); the --story-id values tried:
\* none, 0, the existing story, a missing story
PriorLog ==
    <<UserEvent(<<"a">>), AIEvent(<<"b">>), UserEvent(<<"c">>),
      AIEvent(<<"d">>), UserEvent(<<"e">>), AIEvent(<<"f">>)>>
InitialDb == (1 :> PriorLog)
StoryIds == {None, 0, 1, 2}
NoServer == [found |-> FALSE, name |-> << >>]

\* the lore directory of a chat session
SessionDirectory == <<FileDr, FileNo>>

NoSearch == [done |-> FALSE, query |-> << >>, result |-> << >>,
             cache |-> << >>]
NoGet == [done |-> FALSE, topic |-> << >>, found |-> FALSE,
          content |-> << >>, cache |-> << >>]

\* lore.py:6-9  a LoreManager just constructed over the directory dir
LoreLoaded(dir) ==
    /\ disk = dir
    /\ lore_cache = LoadAll(<< >>, dir)
    /\ lore_pc = "idle"
    /\ pending = << >>
    /\ old_cache = lore_cache
    /\ new_cache = lore_cache
    /\ last_search = NoSearch
    /\ got = NoGet

Init ==
    /\ pc = "connect_all"
    /\ gw \in GatewayConfigs
    /\ provider \in ProviderTags
    /\ arg_story_id \in StoryIds
    /\ story_id = arg_story_id
    /\ db = InitialDb
    /\ tools = << >>
    /\ connected = FALSE
    /\ cleanups = 0
    /\ prompts = 0
    /\ created = 0
    /\ reported = FALSE
    /\ user_input = << >>
    /\ response = << >>
    /\ server_name = NoServer
    /\ recent_events = << >>
    /\ gens = << >>
    /\ invocations = << >>
    /\ turnEvents = << >>
    /\ displayed = << >>
    /\ turn = "none"
    /\ turns = 0
    /\ exit = "none"
    /\ faultAt = "none"
    /\ relevant_lore = << >>
    /\ steps = << >>
    /\ LoreLoaded(SessionDirectory)

\* ------------------------------------------------------ session bootstrap
\* cli.py:118  await mcp_client.connect_all()
ConnectAll ==
    /\ pc = "connect_all"
    /\ connected' = TRUE
    /\ pc' = "get_all_tools"
    /\ UNCHANGED <<story_id, db, cleanups, prompts, exit, faultAt, gw, provider, arg_story_id,
                   tools, created, reported, turnVars>>
    /\ UNCHANGED loreVars

\* cli.py:121-125  tools = await mcp_client.get_all_tools()
GetAllTools ==
    /\ pc = "get_all_tools"
    /\ \E snap \in ToolSnapshots : tools' = snap
    /\ pc' = "bootstrap"
    /\ UNCHANGED <<story_id, db, cleanups, prompts, exit, faultAt, gw, provider, arg_story_id,
                   connected, created, reported, turnVars>>
    /\ UNCHANGED loreVars

\* cli.py:127-130  no story id: ask for a name and create the story
CreateStory ==
    /\ pc = "bootstrap"
    /\ FalsyId(story_id)
    /\ prompts' = prompts + 1
    /\ LET new == MaxKey(DOMAIN db) + 1 IN
         /\ db' = db @@ (new :> << >>)
         /\ story_id' = new
    /\ created' = created + 1
    /\ pc' = "summary"
    /\ UNCHANGED <<cleanups, exit, faultAt, gw, provider, arg_story_id, tools, connected,
                   reported, turnVars>>
    /\ UNCHANGED loreVars

\* cli.py:131-137  a story id: fetch it; report and leave if it is absent
GetStory ==
    /\ pc = "bootstrap"
    /\ ~FalsyId(story_id)
    /\ IF story_id \in DOMAIN db
       THEN /\ pc' = "summary"
            /\ UNCHANGED reported
       ELSE /\ reported' = TRUE
            /\ pc' = "cleanup_missing"
    /\ UNCHANGED <<story_id, db, cleanups, prompts, exit, faultAt, gw, provider, arg_story_id,
                   tools, connected, created, turnVars>>
    /\ UNCHANGED loreVars

\* cli.py:135-136  await mcp_client.cleanup(); return
CleanupMissing ==
    /\ pc = "cleanup_missing"
    /\ cleanups' = cleanups + 1
    /\ exit' = "missing"
    /\ pc' = "Closed"
    /\ UNCHANGED <<story_id, db, prompts, faultAt, sessionVars, turnVars>>
    /\ UNCHANGED loreVars

\* cli.py:139-141  story_summary = db.get_story(story_id).get("summary", "")
StorySummary ==
    /\ pc = "summary"
    /\ pc' = "AwaitingInput"
    /\ UNCHANGED <<story_id, db, cleanups, prompts, exit, faultAt, sessionVars,
                   turnVars>>
    /\ UNCHANGED loreVars

\* cli.py:118-141  a fault raised by connect_all, get_all_tools, Prompt.ask,
\* create_story or get_story: these lines are outside the try block, so the
\* exception leaves chat_loop at once
BootstrapFault ==
    /\ pc \in {"connect_all", "get_all_tools", "bootstrap", "summary"}
    /\ faultAt' = pc
    /\ exit' = "fault"
    /\ pc' = "Closed"
    /\ UNCHANGED <<story_id, db, cleanups, prompts, sessionVars, turnVars>>
    /\ UNCHANGED loreVars

\* AwaitingInput that compares the line with the keywords as typed
AwaitingInput_cased ==
    /\ pc = "AwaitingInput"
    /\ \E u \in Utterances :
         /\ (turns >= MaxTurns => lower(u) \in ExitWords)
         /\ user_input' = u
         /\ prompts' = prompts + 1
         /\ IF u \in ExitWords
            THEN /\ pc' = "finally"
                 /\ exit' = "normal"
                 /\ UNCHANGED <<response, server_name, recent_events, gens,
                                invocations, turnEvents, displayed, turn, turns,
                                relevant_lore, steps>>
            ELSE /\ pc' = "Retrieving"
                 /\ turn' = "running"
                 /\ turns' = turns + 1
                 /\ response' = << >>
                 /\ server_name' = NoServer
                 /\ recent_events' = << >>
                 /\ gens' = << >>
                 /\ invocations' = << >>
                 /\ turnEvents' = << >>
                 /\ displayed' = << >>
                 /\ relevant_lore' = << >>
                 /\ steps' = << >>
                 /\ UNCHANGED exit
    /\ UNCHANGED <<story_id, db, cleanups, faultAt, sessionVars>>
    /\ UNCHANGED loreVars

\* -------------------------------------------------------------- turn loop
\* cli.py:145-147  read the utterance; "exit" or "quit" in any case breaks
AwaitingInput ==
    /\ pc = "AwaitingInput"
    /\ \E u \in Utterances :
         /\ (turns >= MaxTurns => lower(u) \in ExitWords)
         /\ user_input' = u
         /\ prompts' = prompts + 1
         /\ IF lower(u) \in ExitWords
            THEN /\ pc' = "finally"
                 /\ exit' = "normal"
                 /\ UNCHANGED <<response, server_name, recent_events, gens,
                                invocations, turnEvents, displayed, turn, turns,
                                relevant_lore, steps>>
            ELSE /\ pc' = "Retrieving"
                 /\ turn' = "running"
                 /\ turns' = turns + 1
                 /\ response' = << >>
                 /\ server_name' = NoServer
                 /\ recent_events' = << >>
                 /\ gens' = << >>
                 /\ invocations' = << >>
                 /\ turnEvents' = << >>
                 /\ displayed' = << >>
                 /\ relevant_lore' = << >>
                 /\ steps' = << >>
                 /\ UNCHANGED exit
    /\ UNCHANGED <<story_id, db, cleanups, faultAt, sessionVars>>
    /\ UNCHANGED loreVars

\* cli.py:149-174  lore search, last events, system instruction
Retrieving ==
    /\ pc = "Retrieving"
    /\ relevant_lore' = search_lore(lore_cache, user_input)
    /\ recent_events' = get_recent_events(db[story_id], EventLimit)
    /\ steps' = <<"search_lore", "get_recent_events">>
    /\ pc' = "Generating"
    /\ UNCHANGED <<story_id, db, cleanups, prompts, exit, faultAt, sessionVars,
                   user_input, response, server_name, gens, invocations,
                   turnEvents, displayed, turn, turns>>
    /\ UNCHANGED loreVars

\* cli.py:176-182  response = ai.generate_response(prompt=user_input, ...)
Generating ==
    /\ pc = "Generating"
    /\ \E outcome \in NetOutcomes :
         LET r == generate_response(gw, provider, outcome) IN
         /\ response' = r.text
         /\ gens' = Append(gens, r)
    /\ steps' = Append(steps, "generate_response")
    /\ pc' = "Classifying"
    /\ UNCHANGED <<story_id, db, cleanups, prompts, exit, faultAt, sessionVars,
                   user_input, server_name, recent_events, invocations,
                   turnEvents, displayed, turn, turns>>
    /\ UNCHANGED relevant_lore
    /\ UNCHANGED loreVars

\* Classifying without the `except json.JSONDecodeError` clause: the decode
\* error goes to the finally clause and out of chat_loop
Classifying_uncaught ==
    /\ pc = "Classifying"
    /\ IF IsToolCandidate(response)
       THEN LET tool_call == json_loads(response) IN
            IF tool_call.ok
            THEN LET server == FirstServer(tools, tool_call.tool, 1) IN
                 /\ server_name' = server
                 /\ pc' = IF Truthy(server) THEN "ToolInvoking" ELSE "Persisting"
                 /\ UNCHANGED <<exit, faultAt, turn>>
            ELSE /\ pc' = "finally"
                 /\ exit' = "fault"
                 /\ faultAt' = "Classifying"
                 /\ turn' = "aborted"
                 /\ UNCHANGED server_name
       ELSE /\ pc' = "Persisting"
            /\ UNCHANGED <<server_name, exit, faultAt, turn>>
    /\ UNCHANGED <<story_id, db, cleanups, prompts, sessionVars,
                   user_input, response, recent_events, gens, invocations,
                   turnEvents, displayed, turns>>
    /\ UNCHANGED <<relevant_lore, steps>>
    /\ UNCHANGED loreVars

\* cli.py:187-196  tool-call candidate?  parse, resolve the server
Classifying ==
    /\ pc = "Classifying"
    /\ IF IsToolCandidate(response)
       THEN LET tool_call == json_loads(response) IN
            IF tool_call.ok
            THEN LET server == FirstServer(tools, tool_call.tool, 1) IN
                 /\ server_name' = server
                 /\ pc' = IF Truthy(server) THEN "ToolInvoking" ELSE "Persisting"
            ELSE \* except json.JSONDecodeError: pass
                 /\ pc' = "Persisting"
                 /\ UNCHANGED server_name
       ELSE /\ pc' = "Persisting"
            /\ UNCHANGED server_name
    /\ UNCHANGED <<story_id, db, cleanups, prompts, exit, faultAt, sessionVars,
                   user_input, response, recent_events, gens, invocations,
                   turnEvents, displayed, turn, turns>>
    /\ UNCHANGED <<relevant_lore, steps>>
    /\ UNCHANGED loreVars

\* cli.py:197-202  tool_result = await mcp_client.call_tool(...): it returns,
\* or raises; nothing in the loop catches what it raises, so the exception
\* goes to the finally clause and then out of chat_loop
ToolInvoking ==
    /\ pc = "ToolInvoking"
    /\ LET tool_name == json_loads(response).tool.str IN
       \/ \E res \in ToolResults :
            /\ invocations' = Append(invocations,
                   [server |-> server_name.name, tool |-> tool_name,
                    raised |-> FALSE, result |-> res])
            /\ steps' = Append(steps, "call_tool")
            /\ pc' = "ReGenerating"
            /\ UNCHANGED <<exit, faultAt, turn>>
       \/ /\ invocations' = Append(invocations,
                   [server |-> server_name.name, tool |-> tool_name,
                    raised |-> TRUE, result |-> << >>])
          /\ steps' = Append(steps, "call_tool_raised")
          /\ pc' = "finally"
          /\ exit' = "fault"
          /\ faultAt' = "ToolInvoking"
          /\ turn' = "aborted"
    /\ UNCHANGED <<story_id, db, cleanups, prompts, sessionVars, user_input,
                   response, server_name, recent_events, gens, turnEvents,
                   displayed, turns>>
    /\ UNCHANGED relevant_lore
    /\ UNCHANGED loreVars

\* ReGenerating that loops back to classify the second reply
ReGenerating_again ==
    /\ pc = "ReGenerating"
    /\ \E outcome \in NetOutcomes :
         LET r == generate_response(gw, provider, outcome) IN
         /\ response' = r.text
         /\ gens' = Append(gens, r)
    /\ steps' = Append(steps, "generate_response")
    /\ pc' = "Classifying"
    /\ UNCHANGED <<story_id, db, cleanups, prompts, exit, faultAt, sessionVars,
                   user_input, server_name, recent_events, invocations,
                   turnEvents, displayed, turn, turns>>
    /\ UNCHANGED relevant_lore
    /\ UNCHANGED loreVars

\* cli.py:205-211  response = ai.generate_response(prompt=follow_up_prompt, ...)
ReGenerating ==
    /\ pc = "ReGenerating"
    /\ \E outcome \in NetOutcomes :
         LET r == generate_response(gw, provider, outcome) IN
         /\ response' = r.text
         /\ gens' = Append(gens, r)
    /\ steps' = Append(steps, "generate_response")
    /\ pc' = "Persisting"
    /\ UNCHANGED <<story_id, db, cleanups, prompts, exit, faultAt, sessionVars,
                   user_input, server_name, recent_events, invocations,
                   turnEvents, displayed, turn, turns>>
    /\ UNCHANGED relevant_lore
    /\ UNCHANGED loreVars

\* Persisting that logs the user line only and goes back to the prompt
Persisting_once ==
    /\ pc = "Persisting"
    /\ displayed' = Append(displayed, response)
    /\ LET logged == <<UserEvent(user_input)>> IN
         /\ db' = [db EXCEPT ![story_id] = @ \o logged]
         /\ turnEvents' = turnEvents \o logged
    /\ steps' = steps \o <<"print", "log_event">>
    /\ turn' = "completed"
    /\ pc' = "AwaitingInput"
    /\ UNCHANGED <<story_id, cleanups, prompts, exit, faultAt, sessionVars,
                   user_input, response, server_name, recent_events, gens,
                   invocations, turns>>
    /\ UNCHANGED relevant_lore
    /\ UNCHANGED loreVars

\* Persisting with the finally clause inside the loop: cleanup after each turn
Persisting_released ==
    /\ pc = "Persisting"
    /\ displayed' = Append(displayed, response)
    /\ LET logged == <<UserEvent(user_input), AIEvent(response)>> IN
         /\ db' = [db EXCEPT ![story_id] = @ \o logged]
         /\ turnEvents' = turnEvents \o logged
    /\ steps' = steps \o <<"print", "log_event", "log_event">>
    /\ cleanups' = cleanups + 1
    /\ turn' = "completed"
    /\ pc' = "AwaitingInput"
    /\ UNCHANGED <<story_id, prompts, exit, faultAt, sessionVars,
                   user_input, response, server_name, recent_events, gens,
                   invocations, turns>>
    /\ UNCHANGED relevant_lore
    /\ UNCHANGED loreVars

\* cli.py:215-218  print the narration, log the user line, log the AI line
Persisting ==
    /\ pc = "Persisting"
    /\ displayed' = Append(displayed, response)
    /\ LET logged == <<UserEvent(user_input), AIEvent(response)>> IN
         /\ db' = [db EXCEPT ![story_id] = @ \o logged]
         /\ turnEvents' = turnEvents \o logged
    /\ steps' = steps \o <<"print", "log_event", "log_event">>
    /\ turn' = "completed"
    /\ pc' = "AwaitingInput"
    /\ UNCHANGED <<story_id, cleanups, prompts, exit, faultAt, sessionVars,
                   user_input, response, server_name, recent_events, gens,
                   invocations, turns>>
    /\ UNCHANGED relevant_lore
    /\ UNCHANGED loreVars

\* cli.py:220-221  finally: await mcp_client.cleanup()
Finally ==
    /\ pc = "finally"
    /\ cleanups' = cleanups + 1
    /\ pc' = "Closed"
    /\ UNCHANGED <<story_id, db, prompts, exit, faultAt, sessionVars, turnVars>>
    /\ UNCHANGED loreVars

Next ==
    \/ ConnectAll
    \/ GetAllTools
    \/ CreateStory
    \/ GetStory
    \/ CleanupMissing
    \/ StorySummary
    \/ BootstrapFault
    \/ AwaitingInput
    \/ Retrieving
    \/ Generating
    \/ Classifying
    \/ ToolInvoking
    \/ ReGenerating
    \/ Persisting
    \/ Finally

Spec == Init /\ [][Next]_vars

\* ------------------------------------------- LoreManager in a threaded host
\* no chat session: only the LoreManager is in use
InitLore ==
    /\ pc = "Closed"
    /\ gw = [openai_client |-> FALSE, anthropic_client |-> FALSE,
             gemini_key |-> FALSE]
    /\ provider = OPENAI
    /\ arg_story_id = None
    /\ story_id = None
    /\ db = InitialDb
    /\ tools = << >>
    /\ connected = FALSE
    /\ cleanups = 0
    /\ prompts = 0
    /\ created = 0
    /\ reported = FALSE
    /\ user_input = << >>
    /\ response = << >>
    /\ server_name = NoServer
    /\ recent_events = << >>
    /\ gens = << >>
    /\ invocations = << >>
    /\ turnEvents = << >>
    /\ displayed = << >>
    /\ turn = "none"
    /\ turns = 0
    /\ exit = "none"
    /\ faultAt = "none"
    /\ relevant_lore = << >>
    /\ steps = << >>
    /\ \E dir \in Directories : LoreLoaded(dir)

\* lore.py:31-51  a caller runs search_lore on the mapping as it is now
SearchLore ==
    /\ \E q \in Queries :
         last_search' = [done |-> TRUE, query |-> q,
                         result |-> search_lore(lore_cache, q),
                         cache |-> lore_cache]
    /\ UNCHANGED <<chatVars, disk, lore_cache, lore_pc, pending, old_cache,
                   new_cache, got>>

\* lore.py:23-25  a caller runs get_lore on the mapping as it is now
GetLore ==
    /\ \E t \in Topics :
         LET r == get_lore(lore_cache, t) IN
         got' = [done |-> TRUE, topic |-> t, found |-> r.found,
                 content |-> r.content, cache |-> lore_cache]
    /\ UNCHANGED <<chatVars, disk, lore_cache, lore_pc, pending, old_cache,
                   new_cache, last_search>>

\* files are added to or removed from the lore directory between loads
DiskChange ==
    /\ lore_pc = "idle"
    /\ \E dir \in Directories : dir # disk /\ disk' = dir
    /\ UNCHANGED <<chatVars, lore_cache, lore_pc, pending, old_cache,
                   new_cache, last_search, got>>

\* lore.py:55-56, 13-16  refresh_lore: self.lore_cache = {} and _load_lore
\* starts its loop over the directory
RefreshStart ==
    /\ lore_pc = "idle"
    /\ old_cache' = lore_cache
    /\ new_cache' = LoadAll(<< >>, disk)
    /\ lore_cache' = << >>
    /\ pending' = disk
    /\ lore_pc' = "loading"
    /\ last_search' = NoSearch
    /\ got' = NoGet
    /\ UNCHANGED <<chatVars, disk>>

\* lore.py:16-21  one iteration of the loop of _load_lore
LoadNext ==
    /\ lore_pc = "loading"
    /\ pending # << >>
    /\ lore_cache' = LoadFile(lore_cache, Head(pending))
    /\ pending' = Tail(pending)
    /\ UNCHANGED <<chatVars, disk, lore_pc, old_cache, new_cache, last_search,
                   got>>

\* lore.py:16  the loop of _load_lore ends and refresh_lore returns
LoadDone ==
    /\ lore_pc = "loading"
    /\ pending = << >>
    /\ lore_pc' = "idle"
    /\ UNCHANGED <<chatVars, disk, lore_cache, pending, old_cache, new_cache,
                   last_search, got>>

NextLore ==
    \/ SearchLore
    \/ GetLore
    \/ DiskChange
    \/ RefreshStart
    \/ LoadNext
    \/ LoadDone

SpecLore == InitLore /\ [][NextLore]_vars

TypeOK ==
    /\ pc \in {"connect_all", "get_all_tools", "bootstrap", "summary",
               "cleanup_missing", "AwaitingInput", "Retrieving", "Generating",
               "Classifying", "ToolInvoking", "ReGenerating", "Persisting",
               "finally", "Closed"}
    /\ turn \in {"none", "running", "completed", "aborted"}
    /\ exit \in {"none", "normal", "missing", "fault"}
    /\ turns \in 0..MaxTurns
    /\ cleanups \in 0..1

\* ----------------------------------------------------- claims: vocabulary
\* a turn whose utterance was not a termination keyword has just ended:
\* it reached the end of the loop body, or a fault cut it short
TurnCompleted == pc = "AwaitingInput" /\ turn = "completed"
TurnOver == TurnCompleted \/ turn = "aborted"

\* the reply is a tool-call candidate that parses as JSON and names a tool
\* of the discovered snapshot
NamesDiscoveredTool(reply) ==
    /\ IsToolCandidate(reply)
    /\ LET tool_call == json_loads(reply) IN
         /\ tool_call.ok
         /\ tool_call.tool.kind = "str"
         /\ \E i \in 1..Len(tools) : tools[i].name = tool_call.tool.str

\* the reply is valid JSON with a member "tool" that names no discovered tool
NamesUnknownTool(reply) ==
    LET tool_call == json_loads(reply) IN
    /\ tool_call.ok
    /\ tool_call.tool.kind = "str"
    /\ \A i \in 1..Len(tools) : tools[i].name # tool_call.tool.str

\* the reply starts with "{", contains "tool" in double quotes, and is not JSON
IsMalformedCandidate(reply) ==
    IsToolCandidate(reply) /\ ~json_loads(reply).ok

\* ------------------------------------------------------------------ claims
\* C1: every turn whose utterance is not a termination keyword appends
\* exactly two events to the active story: "User: " + the raw utterance, then
\* "AI: " + the first 50 characters of the final narration + "...".
\* (Stated as claimed; a turn cut short by a raising call_tool appends none.)
C1_TwoEventsEveryTurn ==
    TurnOver =>
        turnEvents = <<UserPrefix \o user_input,
                       AIPrefix \o Take(response, 50) \o <<".", ".", ".">> >>

\* C2: in every turn the backend is called a second time exactly once if the
\* first reply is a tool-call candidate that parses and whose tool name
\* resolves among the discovered tools, and never otherwise: one or two
\* generate_response calls per turn.
\* (Stated as claimed; when call_tool raises, the second call is not made.)
C2_RegenerateIffResolved ==
    TurnOver =>
        Len(gens) = IF NamesDiscoveredTool(gens[1].text) THEN 2 ELSE 1

\* C3: at most one tool invocation per turn; when the second reply is itself
\* a well-formed call of a discovered tool, it is not invoked: it is displayed
\* and persisted as the final narration.
C3_SingleRoundTrip ==
    /\ Len(invocations) <= 1
    /\ Len(gens) <= 2
    /\ (TurnCompleted /\ Len(gens) = 2 /\ NamesDiscoveredTool(gens[2].text)) =>
          /\ Len(invocations) = 1
          /\ displayed = <<gens[2].text>>
          /\ turnEvents[2] = AIPrefix \o Take(gens[2].text, 50) \o <<".", ".", ".">>
          /\ Len(db[story_id]) >= 2
          /\ db[story_id][Len(db[story_id])] = turnEvents[2]

C3_Witness ==
    /\ TurnCompleted
    /\ Len(gens) = 2
    /\ NamesDiscoveredTool(gens[2].text)
    /\ Len(invocations) = 1

\* C4: once connect_all has returned, every way the session ends has called
\* cleanup: normal termination, missing story, and any fault in bootstrap or
\* in the turn loop.
\* (Stated as claimed; a fault raised at lines 121-141 skips cleanup.)
C4_CleanupOnEveryExit ==
    (pc = "Closed" /\ connected) => cleanups >= 1

\* C5: started with a story identifier that names no story, the session
\* reports the missing story, calls cleanup and ends without entering the
\* loop: no input read, no generation, no event appended, no story created.
\* (Stated as claimed; the identifier 0 is taken for "no identifier".)
C5_MissingStoryEndsSession ==
    (arg_story_id # None /\ arg_story_id \notin DOMAIN InitialDb) =>
        /\ prompts = 0
        /\ created = 0
        /\ turns = 0
        /\ gens = << >>
        /\ db = InitialDb
        /\ (pc = "Closed" /\ exit # "fault") =>
              (exit = "missing" /\ reported /\ cleanups = 1)

\* C6: a provider call that raises never ends the session: generate_response
\* returns "Error generating response with <provider>: <detail>", the turn
\* displays that text, persists the usual two events and the loop goes back
\* to awaiting input.
C6_ProviderFailureIsNarrated ==
    \A i \in 1..Len(gens) :
        gens[i].failed =>
            /\ \E d \in ErrorDetails :
                 gens[i].text = ErrGeneratingPrefix \o provider \o <<":", " ">> \o d
            /\ i = Len(gens)
            /\ response = gens[i].text
            /\ turn # "aborted"
            /\ exit # "fault"
            /\ pc \in {"Classifying", "Persisting", "AwaitingInput", "finally",
                       "Closed"}
            /\ turn = "completed" =>
                 /\ displayed = <<gens[i].text>>
                 /\ Len(turnEvents) = 2
                 /\ turnEvents[2] = AIPrefix \o Take(gens[i].text, 50)
                                        \o <<".", ".", ".">>
            /\ TurnCompleted => turnEvents[1] = UserPrefix \o user_input

C6_Witness ==
    /\ TurnCompleted
    /\ gens # << >>
    /\ gens[Len(gens)].failed

\* C7: a fault raised by call_tool is recovered inside the turn and does not
\* end the session; only a bad story id at bootstrap ends a session abnormally.
\* (Stated as claimed; nothing catches what call_tool raises.)
C7_ToolFaultRecovered ==
    (\E i \in 1..Len(invocations) : invocations[i].raised) =>
        (turn # "aborted" /\ exit # "fault" /\ pc \notin {"finally", "Closed"})

\* C8: a first reply that is valid JSON {"tool": X, ...} where no discovered
\* tool is named X (also with an empty snapshot) invokes no tool, causes no
\* second generation call, and is itself displayed and persisted.
C8_UnknownToolIsNarration ==
    (gens # << >> /\ NamesUnknownTool(gens[1].text)) =>
        /\ invocations = << >>
        /\ Len(gens) = 1
        /\ pc \notin {"ToolInvoking", "ReGenerating"}
        /\ turn # "aborted"
        /\ turn = "completed" =>
             /\ displayed = <<gens[1].text>>
             /\ Len(turnEvents) = 2
             /\ turnEvents[2] = AIPrefix \o Take(gens[1].text, 50)
                                    \o <<".", ".", ".">>

C8_Witness ==
    /\ TurnCompleted
    /\ tools = << >>
    /\ gens # << >>
    /\ NamesUnknownTool(gens[1].text)

\* C9: a first reply that starts with "{", contains "tool" in double quotes
\* and does not parse as JSON raises no fault: it is narration, no tool is
\* invoked, no second generation call is made, and the turn goes on to
\* display and persistence.
C9_MalformedJsonIsNarration ==
    (gens # << >> /\ IsMalformedCandidate(gens[1].text)) =>
        /\ invocations = << >>
        /\ Len(gens) = 1
        /\ exit # "fault"
        /\ turn # "aborted"
        /\ pc \in {"Classifying", "Persisting", "AwaitingInput", "finally",
                   "Closed"}
        /\ turn = "completed" =>
             /\ displayed = <<gens[1].text>>
             /\ Len(turnEvents) = 2
             /\ turnEvents[2] = AIPrefix \o Take(gens[1].text, 50)
                                    \o <<".", ".", ".">>

C9_Witness ==
    /\ TurnCompleted
    /\ gens # << >>
    /\ IsMalformedCandidate(gens[1].text)

\* C10: generate_response makes no network call when the provider tag is not
\* one of the three supported ones, or when the selected provider has no
\* credential; it returns exactly "Error: Unknown provider '<tag>'", or that
\* provider's "API key not found" text.
C10_NoNetworkWithoutProvider ==
    \A i \in 1..Len(gens) :
        /\ provider = PIGEON =>
             /\ gens[i].net = 0
             /\ gens[i].text =
                  <<"E","r","r","o","r",":"," ","U","n","k","n","o","w","n"," ",
                    "p","r","o","v","i","d","e","r"," ","'","c","a","r","r","i",
                    "e","r","-","p","i","g","e","o","n","'">>
        /\ (provider = OPENAI /\ ~gw.openai_client) =>
             (gens[i].net = 0 /\ gens[i].text = ErrOpenAIKey)
        /\ (provider = ANTHROPIC /\ ~gw.anthropic_client) =>
             (gens[i].net = 0 /\ gens[i].text = ErrAnthropicKey)
        /\ (provider = GEMINI /\ ~gw.gemini_key) =>
             (gens[i].net = 0 /\ gens[i].text = ErrGeminiKey)

C10_Witness ==
    /\ TurnCompleted
    /\ Len(gens) = 1
    /\ gens[1].net = 0
    /\ provider \in {OPENAI, ANTHROPIC, GEMINI}

\* ---------------------------------------------------------- the corpus claims
\* the last search_lore call, once one has been made
Searched == last_search.done

\* the query, compared case-insensitively, is a substring of the topic name or
\* of the body of the document
MatchesDoc(doc, query) ==
    \/ Contains(lower(doc.topic), lower(query))
    \/ Contains(lower(doc.content), lower(query))

\* C11: for every corpus and every query q, search_lore(q) returns the same
\* string as search_lore(q.upper()); on an empty corpus it returns the
\* sentinel; repeating search_lore(q) on the same mapping returns the same
\* string, and a search leaves the mapping as it was.
C11_SearchIgnoresCase ==
    /\ [](Searched =>
            /\ search_lore(last_search.cache, upper(last_search.query))
                  = last_search.result
            /\ (last_search.cache = << >> => last_search.result = NoLoreFound))
    /\ [][/\ (last_search' # last_search /\ last_search'.done)
                => lore_cache' = lore_cache
          /\ (/\ Searched
              /\ last_search'.done
              /\ last_search'.query = last_search.query
              /\ last_search'.cache = last_search.cache)
                => last_search'.result = last_search.result]_vars

\* C12: search_lore includes a document's full text in its result if and only
\* if the query, compared case-insensitively, is a substring of the document's
\* topic name or of its body, whatever case the topic is stored in; the
\* sentinel is returned if and only if no document matches in that sense.
C12_MatchIffSubstring ==
    Searched =>
        LET cache == last_search.cache
            result == last_search.result
            query == last_search.query
        IN  /\ \A i \in 1..Len(cache) :
                   Contains(result, cache[i].content)
                       <=> MatchesDoc(cache[i], query)
            /\ (result = NoLoreFound)
                   <=> (\A i \in 1..Len(cache) : ~MatchesDoc(cache[i], query))

\* C13: when refresh_lore runs concurrently with search_lore or get_lore
\* calls, every reader observes either the complete mapping from before the
\* refresh or the complete mapping after it, never an empty or partially
\* reloaded one.
C13_RefreshIsAtomic ==
    /\ Searched => last_search.cache \in {old_cache, new_cache}
    /\ got.done => got.cache \in {old_cache, new_cache}

\* ------------------------------------------------------------ the turn claims
IsPrefix(s, t) == Len(s) <= Len(t) /\ s = SubSeq(t, 1, Len(s))

\* the calls of a turn without and with a tool invocation, and of a turn that
\* the exception of call_tool cuts short
PlainTurn ==
    <<"search_lore", "get_recent_events", "generate_response",
      "print", "log_event", "log_event">>
ToolTurn ==
    <<"search_lore", "get_recent_events", "generate_response", "call_tool",
      "generate_response", "print", "log_event", "log_event">>
CutTurn ==
    <<"search_lore", "get_recent_events", "generate_response",
      "call_tool_raised">>

\* C14: within every turn the corpus search and the fetch of the last 5 events
\* come before the first generation call, a tool invocation comes only after
\* the first generation call has returned, the second generation call starts
\* only after the tool invocation has returned its result, both appends come
\* after the final narration is determined, and no step of the next turn
\* starts before both appends of the current turn are done.
C14_StepOrder ==
    /\ IsPrefix(steps, PlainTurn) \/ IsPrefix(steps, ToolTurn) \/ steps = CutTurn
    /\ Len(gens) >= 1 =>
          /\ IsPrefix(<<"search_lore", "get_recent_events">>, steps)
          /\ Len(recent_events) <= EventLimit
    /\ Len(invocations) >= 1 => Len(gens) >= 1
    /\ Len(gens) >= 2 => Len(invocations) = 1 /\ ~invocations[1].raised
    /\ turnEvents # << >> =>
          /\ pc = "Persisting" \/ turn = "completed"
          /\ turnEvents[Len(turnEvents)] = AIEvent(gens[Len(gens)].text)
    /\ (turn = "completed" /\ pc # "Persisting") =>
          /\ steps \in {PlainTurn, ToolTurn}
          /\ Len(turnEvents) = 2
    /\ pc = "Retrieving" => steps = << >> /\ turnEvents = << >>

C14_Witness == TurnCompleted /\ steps = ToolTurn /\ turns = 2

\* the line just read is a termination keyword, in any letter case
IsKeyword(u) ==
    \E w \in {<<"e","x","i","t">>, <<"q","u","i","t">>} :
        /\ Len(u) = Len(w)
        /\ \A k \in 1..Len(w) : u[k] = w[k] \/ u[k] = UpperChar(w[k])[1]

\* C15: an utterance equal to "exit" or "quit" in any letter case stops the
\* session: for that utterance there is no corpus search, generation call,
\* tool invocation or event append, the connections are released and no
\* further input is read; any other utterance is processed as an ordinary
\* turn.
C15_KeywordStopsSession ==
    /\ [][(pc = "AwaitingInput" /\ prompts' # prompts) =>
            IF IsKeyword(user_input')
            THEN /\ pc' = "finally"
                 /\ exit' = "normal"
                 /\ UNCHANGED <<db, gens, invocations, steps, relevant_lore,
                                turnEvents, displayed, turns>>
            ELSE /\ pc' = "Retrieving"
                 /\ turn' = "running"
                 /\ turns' = turns + 1
                 /\ steps' = << >>]_vars
    /\ [][exit = "normal" =>
            /\ UNCHANGED <<prompts, db, gens, invocations, steps, turns>>
            /\ pc = "finally" => (pc' = "Closed" /\ cleanups' = cleanups + 1)]_vars
    /\ [](exit = "normal" =>
            /\ IsKeyword(user_input)
            /\ pc \in {"finally", "Closed"}
            /\ pc = "Closed" => cleanups = 1)
    /\ [](pc \in {"Retrieving", "Generating", "Classifying", "ToolInvoking",
                  "ReGenerating", "Persisting"} => ~IsKeyword(user_input))

C15_Witness ==
    /\ pc = "Closed"
    /\ exit = "normal"
    /\ user_input = <<"Q","u","i","t">>
    /\ cleanups = 1
    /\ Len(turnEvents) = 2
    /\ turnEvents[1] = UserEvent(<<"e","x","i","t","s">>)

C17_CreateOnlyWithoutId ==
    /\ created > 0 => arg_story_id = None
    /\ arg_story_id # None =>
          /\ created = 0
          /\ story_id = arg_story_id
          /\ DOMAIN db = DOMAIN InitialDb

\* C18: for every document loaded from the corpus directory, get_lore called
\* with the base name of its file in any letter case returns the document's
\* text; every key of the mapping is the lower-case base name of its file.
\* (Stated as claimed; _load_lore stores the base name as it is spelt.)
C18_KeysAreLowerCase ==
    got.done =>
        \A i \in 1..Len(got.cache) :
            /\ got.cache[i].topic = lower(got.cache[i].topic)
            /\ lower(got.topic) = lower(got.cache[i].topic) =>
                  (got.found /\ got.content = got.cache[i].content)

\* the text returned by generate_response reports an error: the provider call
\* raised, or no provider call was made (unknown provider, missing API key)
ReportsError(r) == r.failed \/ r.net = 0

\* C19: a text returned by generate_response that reports an error (unknown
\* provider, missing API key, "Error generating response with ...") is never
\* classified as a tool call: in a turn whose first generation returns such a
\* text no tool is invoked and no second generation call is made.
C19_ErrorTextIsNarration ==
    (gens # << >> /\ ReportsError(gens[1])) =>
        /\ ~IsToolCandidate(gens[1].text)
        /\ invocations = << >>
        /\ Len(gens) = 1
        /\ pc \notin {"ToolInvoking", "ReGenerating"}
        /\ turn # "aborted"

C19_Witness ==
    /\ TurnCompleted
    /\ Len(gens) = 1
    /\ gens[1].failed
    /\ Contains(gens[1].text, QuotedTool)
    /\ NamesDiscoveredTool(ReplyToolD)
    /\ displayed = <<gens[1].text>>

\* C20: in every session cleanup is invoked at most once, and after cleanup
\* has been invoked no generation call, no tool invocation and no event
\* append ever occurs.
C20_NothingAfterCleanup ==
    /\ [](cleanups <= 1)
    /\ [][cleanups >= 1 =>
            /\ gens' = gens
            /\ invocations' = invocations
            /\ db' = db
            /\ turnEvents' = turnEvents
            /\ steps' = steps
            /\ prompts' = prompts]_vars
    /\ [](cleanups >= 1 => pc = "Closed")

C20_Witness ==
    /\ pc = "Closed"
    /\ cleanups = 1
    /\ exit = "fault"
    /\ turns = 2
    /\ Len(invocations) = 1

====
